---- MODULE Spec2Model ----
(***************************************************************************)
(* Model of the mini notebook (streamlit_notebook): the editor output      *)
(* parser (event deduplication), the Code value holder, the Editor         *)
(* wrapper and the two pages of run_mini_notebook.py that redraw with it.  *)
(*                                                                         *)
(* Python values are modelled as TLA+ strings.  A Python str is the same   *)
(* string; the values that are not strings are written in angle brackets:  *)
(* None is "<None>" and the integer 0 is "<0>".  A dict is a function     *)
(* whose DOMAIN is the set of keys present, so a missing key is a key that *)
(* is not in the DOMAIN.                                                   *)
(***************************************************************************)
EXTENDS Naturals, Sequences, FiniteSets, TLC

VARIABLES
    parser,        \* an editor_output_parser instance: [last_id, last_code]
    pre_parser,    \* that instance as it was before its last call
    output,        \* the argument of the parser's last call (NoCall: not called yet)
    ret,           \* what that call returned: [event, text], and exc, the exception it raised
    repeat,        \* whether that call's argument was also the argument of the call before it
                   \* (on a page: of the call in the page's script run before this one)
    id_log,        \* the parser's last three calls, for a session that logs them:
                   \* [id, type, event, before], before being last_id before the call
    code,          \* a Code instance: [value, new_code_flag]
    pending,       \* the value of the last from_backend while every Editor.show() since
                   \* got the payload delivered before it or None (NoAct otherwise)
    code_log,      \* the last HistLen method calls on it: [op, arg, before, after, exc]
    state,         \* st.session_state: a dict, from the keys present to their values
    files,         \* the autosave files on disk: a dict, from the paths that exist to their text
    choice,        \* main(): the page the radio selects in the current script run
    editor,        \* the Editor built by the current script run: [code, key, event]
    raw_output,    \* Editor.show(): what code_editor() returned in the current script run
    pc,            \* position in the current script run: 0 between runs, an index of PageOrder
                   \* at that statement, Len(PageOrder) + 1 at the end of the script
    trace,         \* the steps of PageOrder the current script run has done, in order
    snapshot,      \* the code outputs and namespace as the current script run found them
    synced,        \* the Code's value after from_ui in the current script run (NoAct: not yet)
    acted,         \* the text the page acted on in the current script run (NoAct: no action)
    saved          \* what became of the autosave of the current script run (NoAct: none)

parserVars == <<parser, pre_parser, output, ret, repeat, id_log>>
codeVars == <<code, code_log, pending>>
appVars == <<state, files, choice, editor, raw_output, pc, trace, snapshot, synced, acted, saved>>

vars == <<parserVars, codeVars, appVars>>

----------------------------------------------------------------------------
(* Bounds and value domains *)

NumIds == 2
NumTexts == 3
HistLen == 3
NumSources == 2

None == "<None>"
Zero == "<0>"

IdNames == <<"a1", "a2", "a3", "a4">>
TextNames == <<"print(1)", "seed", "x = 1", "print(x)">>

\* ids a widget can report: a fresh token, or the falsy values "" and 0, or None
Ids == {IdNames[i] : i \in 1..NumIds} \cup {"", Zero, None}
\* event types: the two the pages act on, one they do not, and the empty one
Types == {"run", "submit", "save", ""}
Texts == {TextNames[i] : i \in 1..NumTexts}

PayloadKeys == {"id", "type", "text"}

\* the `output is None` argument of the parser
NoOutput == [none |-> TRUE]

IsNone(o) == "none" \in DOMAIN o

\* every dict with any subset of the keys id, type, text
Payloads ==
    { [k \in S |-> full[k]] :
        full \in [id : Ids, type : Types, text : Texts], S \in SUBSET PayloadKeys }

Outputs == Payloads \cup {NoOutput}

\* dict.get(key, default)
Get(d, key, default) == IF key \in DOMAIN d THEN d[key] ELSE default

\* Python truthiness of the modelled values
Truthy(v) == v \notin {None, Zero, ""}

----------------------------------------------------------------------------
(* editor_output_parser *)

NewParser(initial_code) == [last_id |-> None, last_code |-> initial_code]

\* `output is None`: no event, the stored text, nothing stored
OnNone_forgets(p) ==
    [last_id |-> None, last_code |-> p.last_code,
     event |-> None, text |-> p.last_code, exc |-> None]

OnNone(p) ==
    [last_id |-> p.last_id, last_code |-> p.last_code,
     event |-> None, text |-> p.last_code, exc |-> None]

\* self.last_code = output.get("text", self.last_code)
NewLastCode_blank(p, o) == Get(o, "text", "")

NewLastCode(p, o) == Get(o, "text", p.last_code)

\* the exception raised by reading id, type and text: none, dict.get raises nothing
FieldError_subscript(o) == IF PayloadKeys \subseteq DOMAIN o THEN None ELSE "KeyError"

FieldError(o) == None

\* out_id is not None and out_id != self.last_id
IdChanged_always(p, out_id) == out_id # None

IdChanged_truthy(p, out_id) == Truthy(out_id) /\ out_id # p.last_id

IdChanged(p, out_id) == out_id # None /\ out_id # p.last_id

\* self.last_id = out_id, inside the `if`
StoredId_never(p, out_id) == p.last_id

StoredId_first(p, out_id) ==
    IF p.last_id = None /\ out_id # None THEN out_id ELSE p.last_id

StoredId(p, out_id) == IF IdChanged(p, out_id) THEN out_id ELSE p.last_id

\* __call__: the parser after the call, with the returned pair and the
\* exception that left the call
ParserCall(p, o) ==
    IF IsNone(o) THEN OnNone(p)
    ELSE IF FieldError(o) # None
    THEN [last_id |-> p.last_id, last_code |-> p.last_code,
          event |-> None, text |-> None, exc |-> FieldError(o)]
    ELSE LET last_code == NewLastCode(p, o)
             out_id == Get(o, "id", None)
             out_type == Get(o, "type", "")
         IN  [last_id |-> StoredId(p, out_id),
              last_code |-> last_code,
              event |-> IF IdChanged(p, out_id) /\ Truthy(out_type) THEN out_type ELSE None,
              text |-> last_code, exc |-> None]

----------------------------------------------------------------------------
(* Code *)

NewCode(value) == [value |-> value, new_code_flag |-> FALSE]

get_value(c) == c.value

\* from_ui that leaves the flag set
from_ui_keeps_flag(c, value) ==
    IF c.new_code_flag THEN c ELSE [c EXCEPT !.value = value]

from_ui(c, value) ==
    IF c.new_code_flag
    THEN [c EXCEPT !.new_code_flag = FALSE]
    ELSE [c EXCEPT !.value = value]

\* from_backend that does nothing while an earlier backend write is pending
from_backend_once(c, value) ==
    IF c.new_code_flag THEN c ELSE [value |-> value, new_code_flag |-> TRUE]

from_backend(c, value) == [value |-> value, new_code_flag |-> TRUE]

----------------------------------------------------------------------------
(* One parser instance and one Code instance under arbitrary calls *)

NoRet == [event |-> None, text |-> None, exc |-> None]

\* the value of `output` before the first call
NoCall == [nocall |-> TRUE]

ParserStart(t) ==
    /\ parser = NewParser(t)
    /\ pre_parser = parser
    /\ output = NoCall
    /\ ret = NoRet
    /\ repeat = FALSE
    /\ id_log = << >>

NoAct == "<no action>"

CodeStart(t) ==
    /\ code = NewCode(t)
    /\ code_log = << >>
    /\ pending = NoAct

NoEditor == [none |-> TRUE]

\* a session in which no script run has started
AppIdle ==
    /\ state = << >>
    /\ files = << >>
    /\ choice = "Code cell"
    /\ editor = NoEditor
    /\ raw_output = NoOutput
    /\ pc = 0
    /\ trace = << >>
    /\ snapshot = << >>
    /\ synced = NoAct
    /\ acted = NoAct
    /\ saved = NoAct

\* a parser created with any initial text, beside an unused Code()
ParserInit == (\E t \in Texts \cup {""} : ParserStart(t)) /\ CodeStart("") /\ AppIdle

\* a Code created with any initial text, beside an unused parser
CodeInit == (\E t \in Texts \cup {""} : CodeStart(t)) /\ ParserStart("") /\ AppIdle

ParserCallStep(o) ==
    LET r == ParserCall(parser, o) IN
    /\ output' = o
    /\ repeat' = (o = output)
    /\ pre_parser' = parser
    /\ parser' = [last_id |-> r.last_id, last_code |-> r.last_code]
    /\ ret' = [event |-> r.event, text |-> r.text, exc |-> r.exc]

CallParser(o) == ParserCallStep(o) /\ UNCHANGED id_log

\* the same call in a session that logs its last three calls
LoggedCall(o) ==
    /\ ParserCallStep(o)
    /\ LET all == Append(id_log, [id |-> Get(o, "id", None), type |-> Get(o, "type", ""),
                                  event |-> ret'.event, before |-> parser.last_id])
       IN  id_log' = IF Len(all) > 3 THEN Tail(all) ELSE all

\* the log with one more call, cut to its last HistLen entries
Logged(log, entry) ==
    LET all == Append(log, entry) IN
    IF Len(all) > HistLen THEN Tail(all) ELSE all

CallFromUi(v) ==
    /\ code' = from_ui(code, v)
    /\ code_log' = Logged(code_log, [op |-> "from_ui", arg |-> v, before |-> code,
                                     after |-> code', exc |-> None])
    /\ UNCHANGED pending

CallFromBackend(v) ==
    /\ code' = from_backend(code, v)
    /\ code_log' = Logged(code_log, [op |-> "from_backend", arg |-> v, before |-> code,
                                     after |-> code', exc |-> None])
    /\ UNCHANGED pending

ParserNext == (\E o \in Outputs : CallParser(o)) /\ UNCHANGED <<codeVars, appVars>>

CodeNext ==
    \/ (\E v \in Texts : CallFromUi(v)) /\ UNCHANGED <<parserVars, appVars>>
    \/ (\E v \in Texts : CallFromBackend(v)) /\ UNCHANGED <<parserVars, appVars>>

SpecParser == ParserInit /\ [][ParserNext]_vars

SpecCode == CodeInit /\ [][CodeNext]_vars

\* the payloads of a logged session: any id or none, a type "run" or "" or
\* none, no text; and None
LoggedOutputs ==
    {o \in Outputs :
        \/ IsNone(o)
        \/ Get(o, "type", "") \in {"run", ""} /\ "text" \notin DOMAIN o}

LoggedNext == (\E o \in LoggedOutputs : LoggedCall(o)) /\ UNCHANGED <<codeVars, appVars>>

SpecParserLog == ParserInit /\ [][LoggedNext]_vars

\* what the component delivers to an Editor: None, or a dict with an id, a
\* type and, unless it is left out, a text
EditorOutputs ==
    { [k \in S |-> full[k]] :
        full \in [id : {IdNames[i] : i \in 1..NumIds}, type : {"run", ""}, text : Texts],
        S \in {{"id", "type"}, {"id", "type", "text"}} }
    \cup {NoOutput}

\* Editor(code=Code(t), key=...): the Editor, its Code and its parser
EditorInit ==
    /\ \E t \in Texts : ParserStart(t) /\ CodeStart(t)
    /\ state = << >>
    /\ files = << >>
    /\ choice = "Code cell"
    /\ editor = [code |-> "code", key |-> "editor", event |-> None]
    /\ raw_output = NoOutput
    /\ pc = 0
    /\ trace = << >>
    /\ snapshot = << >>
    /\ synced = NoAct
    /\ acted = NoAct
    /\ saved = NoAct

\* Editor.show() as a whole, the component delivering o, which the framework
\* keeps under the Editor's key
EditorShow(o) ==
    /\ raw_output' = o
    /\ state' = [k \in {editor.key} |-> o]
    /\ ParserCallStep(IF editor.key \in DOMAIN state' THEN state'[editor.key] ELSE o)
    /\ code' = from_ui(code, ret'.text)
    /\ editor' = [editor EXCEPT !.event = ret'.event]
    /\ pending' = IF pending # NoAct /\ (IsNone(o) \/ o = output) THEN pending ELSE NoAct
    /\ UNCHANGED <<id_log, code_log, files, choice, pc, trace, snapshot, synced, acted, saved>>

\* code.from_backend(x), called by the program between two redraws
EditorBackend(x) ==
    /\ code' = from_backend(code, x)
    /\ pending' = x
    /\ UNCHANGED <<parserVars, code_log, appVars>>

EditorNext ==
    \/ \E o \in EditorOutputs : EditorShow(o)
    \/ \E x \in Texts : EditorBackend(x)

SpecEditor == EditorInit /\ [][EditorNext]_vars

\* a parser and a Code, each created with any initial text, of which the
\* session calls only one: only the parser, or only the Code
EitherInit ==
    /\ \E t \in Texts \cup {""} : ParserStart(t)
    /\ \E t \in Texts \cup {""} : CodeStart(t)
    /\ AppIdle

EitherNext ==
    \/ code_log = << >> /\ ParserNext
    \/ output = NoCall /\ CodeNext

SpecEither == EitherInit /\ [][EitherNext]_vars

----------------------------------------------------------------------------
(* run_mini_notebook.py: the session, the autosave files and a script run *)

ENABLE_AUTOSAVE == TRUE
AUTOLOAD_ON_START == TRUE
CODE_AUTOSAVE_PATH == ".mini_notebook_code.py"
MARKDOWN_AUTOSAVE_PATH == ".mini_notebook_notes.md"

DefaultCode == "print('Hello from mini notebook!')"
DefaultMd == "# Markdown notepad\n\nStart typing..."

CodePage == "Code cell"
MarkdownPage == "Markdown notepad"
Pages == {CodePage, MarkdownPage}

\* d[k] = v on a dict
Put(d, k, v) == [x \in DOMAIN d \cup {k} |-> IF x = k THEN v ELSE d[x]]

\* del d[k], when present
Drop(d, k) == [x \in DOMAIN d \ {k} |-> d[x]]

\* what open(path, "w") and f.write(text) can do to the file
SaveOutcomes == {"written", "open_failed", "write_failed"}

Autosave_off(fs, path, text, outcome) == fs

\* _autosave: the files afterwards; a failure is reported by a toast and not raised
Autosave(fs, path, text, outcome) ==
    IF ~ENABLE_AUTOSAVE \/ path = "" THEN fs
    ELSE CASE outcome = "written" -> Put(fs, path, text)
           [] outcome = "open_failed" -> fs
           [] outcome = "write_failed" -> Put(fs, path, "")

\* _autoload_if_needed: the file's text when it exists and can be read
Autoload(fs, path, default_text, readable) ==
    IF AUTOLOAD_ON_START /\ path # "" /\ path \in DOMAIN fs
    THEN (IF readable THEN fs[path] ELSE default_text)
    ELSE default_text

NameErrorOf(name) ==
    IF name = "x" THEN "NameError: name 'x' is not defined"
    ELSE IF name = "y" THEN "NameError: name 'y' is not defined"
    ELSE "NameError: name 'seed' is not defined"

\* a source that binds a name and then raises, and one that writes to stderr
BindThenRaise == "y = 2\nraise ValueError('stop')"
WriteStderr == "import sys\nprint('warn', file=sys.stderr)"

\* exec(compile(src, ...), ns) under redirect_stdout/redirect_stderr, for the
\* sources of the model: the namespace afterwards, what was written to stdout
\* and stderr, and the traceback of the Exception raised ("": none).  The
\* namespace is shown without the __builtins__ entry that exec adds.
Exec(src, ns) ==
    CASE src = "print(1)" -> [ns |-> ns, out |-> "1\n", err |-> "", exc |-> ""]
      [] src = "x = 1" -> [ns |-> Put(ns, "x", "1"), out |-> "", err |-> "", exc |-> ""]
      [] src = "print(x)" ->
            IF "x" \in DOMAIN ns
            THEN [ns |-> ns, out |-> "1\n", err |-> "", exc |-> ""]
            ELSE [ns |-> ns, out |-> "", err |-> "", exc |-> NameErrorOf("x")]
      [] src = "seed" -> [ns |-> ns, out |-> "", err |-> "", exc |-> NameErrorOf("seed")]
      [] src = BindThenRaise ->
            [ns |-> Put(ns, "y", "2"), out |-> "", err |-> "", exc |-> "ValueError: stop"]
      [] src = "print(y)" ->
            IF "y" \in DOMAIN ns
            THEN [ns |-> ns, out |-> "2\n", err |-> "", exc |-> ""]
            ELSE [ns |-> ns, out |-> "", err |-> "", exc |-> NameErrorOf("y")]
      [] src = WriteStderr ->
            [ns |-> Put(ns, "sys", "<module 'sys'>"), out |-> "", err |-> "warn\n", exc |-> ""]
      [] src = DefaultCode ->
            [ns |-> ns, out |-> "Hello from mini notebook!\n", err |-> "", exc |-> ""]
      [] src = "" -> [ns |-> ns, out |-> "", err |-> "", exc |-> ""]
      [] OTHER -> [ns |-> ns, out |-> "", err |-> "", exc |-> "SyntaxError: invalid syntax"]

EnsureCodeState_resets(st, fs, readable) ==
    LET s1 == Put(st, "mini_code_code",
                  NewCode(Autoload(fs, CODE_AUTOSAVE_PATH, DefaultCode, readable)))
        s2 == Put(s1, "mini_code_ns", << >>)
        s3 == Put(s2, "mini_code_stdout", "")
        s4 == Put(s3, "mini_code_stderr", "")
    IN  Put(s4, "mini_code_exception", "")

\* _ensure_code_state
EnsureCodeState(st, fs, readable) ==
    LET s1 == IF "mini_code_code" \in DOMAIN st THEN st
              ELSE Put(st, "mini_code_code",
                       NewCode(Autoload(fs, CODE_AUTOSAVE_PATH, DefaultCode, readable)))
        s2 == IF "mini_code_ns" \in DOMAIN s1 THEN s1 ELSE Put(s1, "mini_code_ns", << >>)
        s3 == IF "mini_code_stdout" \in DOMAIN s2 THEN s2 ELSE Put(s2, "mini_code_stdout", "")
        s4 == IF "mini_code_stderr" \in DOMAIN s3 THEN s3 ELSE Put(s3, "mini_code_stderr", "")
    IN  IF "mini_code_exception" \in DOMAIN s4 THEN s4 ELSE Put(s4, "mini_code_exception", "")

EnsureMarkdownState_live(st, fs, readable) ==
    LET s1 == IF "mini_md_code" \in DOMAIN st THEN st
              ELSE Put(st, "mini_md_code",
                       NewCode(Autoload(fs, MARKDOWN_AUTOSAVE_PATH, DefaultMd, readable)))
    IN  Put(s1, "mini_md_last_run", get_value(s1["mini_md_code"]))

\* _ensure_markdown_state
EnsureMarkdownState(st, fs, readable) ==
    LET s1 == IF "mini_md_code" \in DOMAIN st THEN st
              ELSE Put(st, "mini_md_code",
                       NewCode(Autoload(fs, MARKDOWN_AUTOSAVE_PATH, DefaultMd, readable)))
    IN  IF "mini_md_last_run" \in DOMAIN s1 THEN s1
        ELSE Put(s1, "mini_md_last_run", get_value(s1["mini_md_code"]))

\* _run_code: the session and the files afterwards
RunCode_appends(st, fs, outcome) ==
    LET src == get_value(st["mini_code_code"])
        r == Exec(src, st["mini_code_ns"])
    IN  [state |-> [st EXCEPT !["mini_code_ns"] = r.ns,
                              !["mini_code_exception"] = IF r.exc = "" THEN @ ELSE r.exc,
                              !["mini_code_stdout"] = @ \o r.out,
                              !["mini_code_stderr"] = @ \o r.err],
         files |-> Autosave(fs, CODE_AUTOSAVE_PATH, src, outcome)]

RunCode_fresh_ns(st, fs, outcome) ==
    LET src == get_value(st["mini_code_code"])
        r == Exec(src, << >>)
    IN  [state |-> [st EXCEPT !["mini_code_ns"] = r.ns,
                              !["mini_code_exception"] = r.exc,
                              !["mini_code_stdout"] = r.out,
                              !["mini_code_stderr"] = r.err],
         files |-> Autosave(fs, CODE_AUTOSAVE_PATH, src, outcome)]

RunCode(st, fs, outcome) ==
    LET src == get_value(st["mini_code_code"])
        r == Exec(src, st["mini_code_ns"])
    IN  [state |-> [st EXCEPT !["mini_code_ns"] = r.ns,
                              !["mini_code_exception"] = r.exc,
                              !["mini_code_stdout"] = r.out,
                              !["mini_code_stderr"] = r.err],
         files |-> Autosave(fs, CODE_AUTOSAVE_PATH, src, outcome)]

\* show_markdown_mode, the run/submit branch: the session and the files afterwards
ConfirmMarkdown(st, fs, outcome) ==
    LET text == get_value(st["mini_md_code"])
    IN  [state |-> [st EXCEPT !["mini_md_last_run"] = text],
         files |-> Autosave(fs, MARKDOWN_AUTOSAVE_PATH, text, outcome)]

\* editor.event in ("run", "submit")
IsRunEvent_any(event) == Truthy(event)

IsRunEvent(event) == event \in {"run", "submit"}

\* Editor.get_output
get_output(ed, st, raw) == IF ed.key \in DOMAIN st THEN st[ed.key] ELSE raw

CodeKey(c) == IF c = CodePage THEN "mini_code_code" ELSE "mini_md_code"
EditorKey(c) == IF c = CodePage THEN "mini_code_editor" ELSE "mini_markdown_editor"

OutputKeys == {"mini_code_stdout", "mini_code_stderr", "mini_code_exception", "mini_code_ns"}

\* the stored outputs and namespace of the session
CodeOutputs(st) == [k \in OutputKeys \cap DOMAIN st |-> st[k]]

\* the texts typed into the editors and found in the autosave files
SourceNames == <<"x = 1", "print(x)", "print(1)", "seed">>
Sources == {SourceNames[i] : i \in 1..NumSources}

\* what the code_editor component delivers in a script run: None, or a dict with
\* the id of the interaction, its type, and the text unless it is left out
SurfaceOutputs ==
    { [k \in S |-> full[k]] :
        full \in [id : {IdNames[i] : i \in 1..NumIds}, type : Types, text : Sources],
        S \in {{"id", "type"}, {"id", "type", "text"}} }
    \cup {NoOutput}

\* the statements of a page after the editor is rendered, in their order:
\* Editor.show() parses, synchronises, sets the event; the page then inspects it
PageOrder_inspect_early == <<"parse", "set_event", "inspect", "from_ui">>

PageOrder == <<"parse", "from_ui", "set_event", "inspect">>

AtStep(name) == pc \in 1..Len(PageOrder) /\ PageOrder[pc] = name

StepDone(name) ==
    /\ trace' = Append(trace, name)
    /\ pc' = pc + 1

\* a new session: nothing in session_state, the autosave files of earlier sessions
AppInit ==
    /\ ParserStart("") /\ CodeStart("")
    /\ state = << >>
    /\ \E cf, mf \in {SourceNames[1], NoAct} :
          files = [p \in {q \in {CODE_AUTOSAVE_PATH, MARKDOWN_AUTOSAVE_PATH} :
                            (IF q = CODE_AUTOSAVE_PATH THEN cf ELSE mf) # NoAct}
                      |-> IF p = CODE_AUTOSAVE_PATH THEN cf ELSE mf]
    /\ choice = CodePage
    /\ editor = NoEditor
    /\ raw_output = NoOutput
    /\ pc = 0
    /\ trace = << >>
    /\ snapshot = << >>
    /\ synced = NoAct
    /\ acted = NoAct
    /\ saved = NoAct

\* main() up to code_editor(): the radio selects page c, the page ensures its
\* session entries and builds its Editor, and the component delivers o, which
\* the framework keeps under the component's key (and drops the key of the
\* component that is not rendered)
Rerun(c, o, readable) ==
    /\ pc = 0
    /\ choice' = c
    /\ LET st0 == Put(state, "mini_notebook_mode", c)
           st1 == IF c = CodePage THEN EnsureCodeState(st0, files, readable)
                  ELSE EnsureMarkdownState(st0, files, readable)
           other == CHOOSE d \in Pages : d # c
       IN  /\ state' = Put(Drop(st1, EditorKey(other)), EditorKey(c), o)
           /\ editor' = [code |-> CodeKey(c), key |-> EditorKey(c), event |-> None]
           /\ parser' = NewParser(get_value(st1[CodeKey(c)]))
           /\ pre_parser' = parser'
           /\ snapshot' = CodeOutputs(st1)
    /\ raw_output' = o
    /\ repeat' = (EditorKey(c) \in DOMAIN state /\ state[EditorKey(c)] = o)
    /\ trace' = << >>
    /\ synced' = NoAct
    /\ acted' = NoAct
    /\ saved' = NoAct
    /\ pc' = 1
    /\ UNCHANGED <<output, ret, id_log, files, codeVars>>

\* Editor.show(): event, content = self._parser(self.get_output(raw_output))
ShowParse ==
    /\ AtStep("parse")
    /\ LET o == get_output(editor, state, raw_output)
           r == ParserCall(parser, o)
       IN  /\ output' = o
           /\ pre_parser' = parser
           /\ parser' = [last_id |-> r.last_id, last_code |-> r.last_code]
           /\ ret' = [event |-> r.event, text |-> r.text, exc |-> r.exc]
    /\ StepDone("parse")
    /\ UNCHANGED <<repeat, id_log, codeVars, state, files, choice, editor, raw_output,
                   snapshot, synced, acted, saved>>

\* Editor.show(): self.code.from_ui(content)
ShowFromUi ==
    /\ AtStep("from_ui")
    /\ state' = [state EXCEPT ![editor.code] = from_ui(@, ret.text)]
    /\ synced' = get_value(state'[editor.code])
    /\ StepDone("from_ui")
    /\ UNCHANGED <<parserVars, codeVars, files, choice, editor, raw_output, snapshot, acted, saved>>

\* Editor.show(): self.event = event
ShowSetEvent ==
    /\ AtStep("set_event")
    /\ editor' = [editor EXCEPT !.event = ret.event]
    /\ StepDone("set_event")
    /\ UNCHANGED <<parserVars, codeVars, state, files, choice, raw_output,
                   snapshot, synced, acted, saved>>

\* show_code_mode: if editor.event in ("run", "submit"): _run_code()
InspectCode ==
    /\ AtStep("inspect")
    /\ choice = CodePage
    /\ IF IsRunEvent(editor.event)
       THEN \E outcome \in SaveOutcomes :
              LET r == RunCode(state, files, outcome) IN
              /\ state' = r.state
              /\ files' = r.files
              /\ acted' = get_value(state["mini_code_code"])
              /\ saved' = outcome
       ELSE UNCHANGED <<state, files, acted, saved>>
    /\ StepDone("inspect")
    /\ UNCHANGED <<parserVars, codeVars, choice, editor, raw_output, snapshot, synced>>

\* show_markdown_mode: if editor.event in ("run", "submit"): confirm the text
InspectMarkdown ==
    /\ AtStep("inspect")
    /\ choice = MarkdownPage
    /\ IF IsRunEvent(editor.event)
       THEN \E outcome \in SaveOutcomes :
              LET r == ConfirmMarkdown(state, files, outcome) IN
              /\ state' = r.state
              /\ files' = r.files
              /\ acted' = r.state["mini_md_last_run"]
              /\ saved' = outcome
       ELSE UNCHANGED <<state, files, acted, saved>>
    /\ StepDone("inspect")
    /\ UNCHANGED <<parserVars, codeVars, choice, editor, raw_output, snapshot, synced>>

\* main() returns: the script run ends and its locals (the Editor with its
\* parser, the payload, the event) are gone; the session and the files stay
EndRun ==
    /\ pc = Len(PageOrder) + 1
    /\ pc' = 0
    /\ editor' = NoEditor
    /\ raw_output' = NoOutput
    /\ parser' = NewParser("")
    /\ pre_parser' = parser'
    /\ output' = NoCall
    /\ ret' = NoRet
    /\ repeat' = FALSE
    /\ trace' = << >>
    /\ snapshot' = << >>
    /\ synced' = NoAct
    /\ acted' = NoAct
    /\ saved' = NoAct
    /\ UNCHANGED <<id_log, codeVars, state, files, choice>>

\* the statements of the page after code_editor(), one at a time
PageStep ==
    \/ ShowParse
    \/ ShowFromUi
    \/ ShowSetEvent
    \/ InspectCode
    \/ InspectMarkdown
    \/ EndRun

\* a session in which the user switches between the pages at will
Next ==
    \/ \E c \in Pages, o \in SurfaceOutputs, readable \in BOOLEAN : Rerun(c, o, readable)
    \/ PageStep

Spec == AppInit /\ [][Next]_vars

\* a session in which the radio stays on the page of the first script run
OnePageNext ==
    \/ \E c \in Pages, o \in SurfaceOutputs, readable \in BOOLEAN :
          /\ "mini_notebook_mode" \in DOMAIN state => c = state["mini_notebook_mode"]
          /\ Rerun(c, o, readable)
    \/ PageStep

SpecOnePage == AppInit /\ [][OnePageNext]_vars

\* a session on the code page alone, with sources that bind, read, raise and
\* write to stderr
CellSources == {"x = 1", "print(x)", BindThenRaise, "print(y)", WriteStderr}

CellOutputs ==
    { [k \in S |-> full[k]] :
        full \in [id : {IdNames[1]}, type : Types, text : CellSources],
        S \in {{"id", "type"}, {"id", "type", "text"}} }
    \cup {NoOutput}

CellStep ==
    \/ ShowParse
    \/ ShowFromUi
    \/ ShowSetEvent
    \/ InspectCode
    \/ EndRun

CellNext ==
    \/ \E o \in CellOutputs, readable \in BOOLEAN : Rerun(CodePage, o, readable)
    \/ CellStep

SpecCell == AppInit /\ [][CellNext]_vars

\* a session that switches between the pages, with one interaction id and
\* the types "run" and ""
SwitchOutputs ==
    { [k \in S |-> full[k]] :
        full \in [id : {IdNames[1]}, type : {"run", ""}, text : Sources],
        S \in {{"id", "type"}, {"id", "type", "text"}} }
    \cup {NoOutput}

SwitchNext ==
    \/ \E c \in Pages, o \in SwitchOutputs, readable \in BOOLEAN : Rerun(c, o, readable)
    \/ PageStep

SpecSwitch == AppInit /\ [][SwitchNext]_vars

----------------------------------------------------------------------------
(* Properties of the parser, under SpecParser *)

\* the last call was made, with a dict
CalledWithPayload == output # NoCall /\ ~IsNone(output)

PayloadId == Get(output, "id", None)
PayloadType == Get(output, "type", "")

\* C2: a payload whose id equals the stored last_id returns event = None,
\* whatever its type and text are.
C2_SeenIdNeverFires ==
    (CalledWithPayload /\ PayloadId = pre_parser.last_id) => ret.event = None

C2_Witness ==
    /\ CalledWithPayload
    /\ PayloadId = "a1" /\ pre_parser.last_id = "a1"
    /\ PayloadType = "run"
    /\ "text" \in DOMAIN output /\ output.text # pre_parser.last_code
    /\ ret.event = None

\* C3: a payload with a present id that differs from last_id and a non-empty
\* type returns event = type on the first call, and every call that repeats
\* the argument of the call before it returns event = None.
C3_FiresOnceAcrossRepeats ==
    /\ (CalledWithPayload /\ PayloadId # None /\ PayloadId # pre_parser.last_id
            /\ PayloadType # "" /\ PayloadType # None)
        => ret.event = PayloadType
    /\ (CalledWithPayload /\ repeat) => ret.event = None

C3_Witness ==
    /\ repeat
    /\ output = [id |-> "a1", type |-> "run", text |-> "print(1)"]
    /\ ret = [event |-> None, text |-> "print(1)", exc |-> None]

\* C5: the parser called with None returns (None, last_code) and changes neither
\* last_id nor last_code; a fresh parser with text "seed" returns (None, "seed").
C5_NoneIsNoOp ==
    (output # NoCall /\ IsNone(output)) =>
        /\ ret.event = None
        /\ ret.text = pre_parser.last_code
        /\ parser = pre_parser
        /\ (pre_parser = NewParser("seed") => ret.text = "seed")

C5_Witness ==
    /\ IsNone(output)
    /\ pre_parser = [last_id |-> "a1", last_code |-> "seed"]
    /\ parser = pre_parser
    /\ ret = [event |-> None, text |-> "seed", exc |-> None]

\* C6: for a dict payload the returned text is the payload's text when the key
\* is present and the stored last_code when it is missing, and last_code
\* becomes the returned text, whether or not an event is emitted.
C6_TextTracksPayload ==
    CalledWithPayload =>
        /\ ret.text = (IF "text" \in DOMAIN output THEN output.text
                       ELSE pre_parser.last_code)
        /\ parser.last_code = ret.text

C6_Witness ==
    /\ CalledWithPayload
    /\ "text" \notin DOMAIN output
    /\ "id" \in DOMAIN output /\ output.id = pre_parser.last_id
    /\ pre_parser.last_code = "x = 1"
    /\ ret.text = "x = 1" /\ ret.event = None

\* C9: an id that is present with the value "" or 0 counts as an id: when it
\* differs from last_id it is stored and, with a non-empty type, the event is
\* emitted; a differing id loses its event only when the payload has no id.
C9_FalsyIdIsPresent ==
    CalledWithPayload =>
        /\ (PayloadId \in {"", Zero} /\ PayloadId # pre_parser.last_id) =>
              /\ parser.last_id = PayloadId
              /\ Truthy(PayloadType) => ret.event = PayloadType
        /\ (Truthy(PayloadType) /\ PayloadId # pre_parser.last_id /\ ret.event = None)
              => PayloadId = None

C9_Witness ==
    /\ CalledWithPayload
    /\ PayloadId = Zero /\ pre_parser.last_id = ""
    /\ parser.last_id = Zero
    /\ ret.event = "submit"

\* C10: a dict with any subset of id, type, text missing raises nothing;
\* a missing id, or a missing or empty type, gives event = None; a missing
\* text keeps last_code; the empty dict returns (None, last_code) and stores
\* nothing.  No call of Code.from_ui or Code.from_backend raises.
C10_MissingFieldsAreNeutral ==
    /\ CalledWithPayload =>
        /\ ret.exc = None
        /\ ("id" \notin DOMAIN output \/ "type" \notin DOMAIN output \/ PayloadType = "")
              => ret.event = None
        /\ "text" \notin DOMAIN output =>
              (ret.text = pre_parser.last_code /\ parser.last_code = pre_parser.last_code)
        /\ DOMAIN output = {} =>
              (ret.event = None /\ ret.text = pre_parser.last_code /\ parser = pre_parser)
    /\ \A i \in 1..Len(code_log) : code_log[i].exc = None

C10_Witness ==
    /\ CalledWithPayload
    /\ DOMAIN output = {}
    /\ pre_parser = [last_id |-> "a2", last_code |-> "print(1)"]
    /\ parser = pre_parser
    /\ ret = [event |-> None, text |-> "print(1)", exc |-> None]

----------------------------------------------------------------------------
(* Properties of a sequence of parser calls, under SpecParserLog *)

IdLogIndex == 1..Len(id_log)

\* the logged calls that carried an id
WithId == {i \in IdLogIndex : id_log[i].id # None}

\* C15: last_id is the id of the most recent payload that carried one (None
\* when none did) and changes only in a call whose id is present and differs
\* from the stored one.  An id is consumed even without a type: the same id
\* right after it emits nothing, whatever its type.  An id seen earlier fires
\* again once another id came in between: a1, a2, a1 with a type emit three
\* events.
C15_LastIdIsLatestId ==
    /\ output = NoCall => parser.last_id = None
    /\ WithId # {} =>
          parser.last_id = id_log[CHOOSE i \in WithId : \A j \in WithId : j <= i].id
    /\ (WithId = {} /\ Len(id_log) > 0) => parser.last_id = id_log[1].before
    /\ (WithId = {} /\ Len(id_log) < 3) => parser.last_id = None
    /\ \A i \in IdLogIndex :
          LET e == id_log[i]
              after == IF i = Len(id_log) THEN parser.last_id ELSE id_log[i + 1].before
          IN  /\ after # e.before => (e.id # None /\ e.id # e.before /\ after = e.id)
              /\ (e.id # None /\ e.id # e.before /\ ~Truthy(e.type)) =>
                    /\ e.event = None
                    /\ after = e.id
                    /\ (i + 1 \in IdLogIndex /\ id_log[i + 1].id = e.id) =>
                          id_log[i + 1].event = None
    /\ (/\ Len(id_log) = 3
        /\ id_log[1].id # None /\ id_log[1].id # id_log[1].before
        /\ id_log[2].id # None /\ id_log[2].id # id_log[1].id
        /\ id_log[3].id = id_log[1].id
        /\ \A i \in IdLogIndex : Truthy(id_log[i].type))
       => \A i \in IdLogIndex : id_log[i].event = id_log[i].type

C15_Witness ==
    /\ Len(id_log) = 3
    /\ id_log[1] = [id |-> "a1", type |-> "run", event |-> "run", before |-> None]
    /\ id_log[2] = [id |-> "a2", type |-> "run", event |-> "run", before |-> "a1"]
    /\ id_log[3] = [id |-> "a1", type |-> "run", event |-> "run", before |-> "a2"]
    /\ parser.last_id = "a1"

----------------------------------------------------------------------------
(* Properties of Code, under SpecCode *)

LogIndex == 1..Len(code_log)

\* C4: a from_ui call made with new_code_flag set leaves the content unchanged
\* and clears the flag, and the from_ui call right after it sets the content to
\* its argument; after from_backend(X), from_ui(Y), from_ui(Z) the contents are
\* X, X, Z; a from_ui call with the flag clear sets the content to its argument.
C4_OneEchoDiscarded ==
    \A i \in LogIndex :
        LET e == code_log[i] IN
        /\ (e.op = "from_ui" /\ e.before.new_code_flag) =>
              /\ get_value(e.after) = get_value(e.before)
              /\ ~e.after.new_code_flag
              /\ (i + 1 \in LogIndex /\ code_log[i + 1].op = "from_ui") =>
                    get_value(code_log[i + 1].after) = code_log[i + 1].arg
        /\ (e.op = "from_ui" /\ ~e.before.new_code_flag) =>
              get_value(e.after) = e.arg
        /\ (e.op = "from_backend" /\ i + 2 \in LogIndex
                /\ code_log[i + 1].op = "from_ui" /\ code_log[i + 2].op = "from_ui") =>
              /\ get_value(e.after) = e.arg
              /\ get_value(code_log[i + 1].after) = e.arg
              /\ get_value(code_log[i + 2].after) = code_log[i + 2].arg

C4_Witness ==
    /\ Len(code_log) = 3
    /\ code_log[1].op = "from_backend" /\ code_log[1].arg = "seed"
    /\ code_log[2].op = "from_ui" /\ code_log[2].arg = "print(1)"
    /\ get_value(code_log[2].after) = "seed"
    /\ code_log[3].op = "from_ui" /\ code_log[3].arg = "x = 1"
    /\ get_value(code) = "x = 1"

\* C16: from_backend sets the content to its argument and sets new_code_flag,
\* also when the flag is already set; the flag does not count: however many
\* from_backend calls come first, the one from_ui call right after them is
\* discarded (the content stays the last backend value and the flag clears)
\* and the from_ui call after that one sets the content.
C16_FlagIsNotACounter ==
    \A i \in LogIndex :
        LET e == code_log[i] IN
        /\ e.op = "from_backend" =>
              /\ get_value(e.after) = e.arg
              /\ e.after.new_code_flag = TRUE
        /\ (e.op = "from_ui" /\ i > 1 /\ code_log[i - 1].op = "from_backend") =>
              /\ get_value(e.after) = code_log[i - 1].arg
              /\ e.after.new_code_flag = FALSE
        /\ (e.op = "from_ui" /\ i > 1 /\ code_log[i - 1].op = "from_ui") =>
              get_value(e.after) = e.arg

C16_Witness ==
    /\ Len(code_log) = 3
    /\ code_log[1].op = "from_backend" /\ code_log[1].arg = "print(1)"
    /\ code_log[2].op = "from_backend" /\ code_log[2].arg = "seed"
    /\ code_log[2].before.new_code_flag
    /\ code_log[3].op = "from_ui" /\ code_log[3].arg = "x = 1"
    /\ code = [value |-> "seed", new_code_flag |-> FALSE]

----------------------------------------------------------------------------
(* Properties of an Editor, under SpecEditor *)

\* C14: after code.from_backend(X) the content stays X as long as every
\* Editor.show() since was given the payload delivered before the update
\* (same id, same text) or no payload at all.
C14_BackendValueSurvivesEchoes ==
    pending # NoAct => get_value(code) = pending

----------------------------------------------------------------------------
(* Properties of the pages, under SpecOnePage *)

\* the current script run has done all its steps
RunFinished == pc # 0 /\ Len(trace) = 4

Did(name) == \E i \in 1..Len(trace) : trace[i] = name

\* C1: when the component delivers to a redraw of the code page the payload it
\* delivered to the redraw before it (same id, type "run" or "submit"),
\* _run_code is not executed again in that redraw.
C1_RedeliveredRunIsNotRepeated ==
    (RunFinished /\ choice = CodePage /\ repeat /\ ~IsNone(output)
        /\ output.type \in {"run", "submit"})
    => acted = NoAct

C8_ActsOnTextSyncedInSameRun ==
    /\ \A i \in 1..Len(trace) : trace[i] = <<"parse", "from_ui", "set_event", "inspect">>[i]
    /\ synced # NoAct => (Did("parse") /\ synced = ret.text)
    /\ acted # NoAct => (Did("set_event") /\ acted = synced)

C8_Witness ==
    /\ RunFinished /\ choice = MarkdownPage
    /\ pre_parser.last_code = "x = 1"
    /\ acted = "print(x)"
    /\ state["mini_md_last_run"] = "print(x)"

\* the page is about to call _run_code()
AboutToRun == AtStep("inspect") /\ choice = CodePage /\ IsRunEvent(editor.event)

\* the markdown page is about to confirm the text
AboutToConfirm == AtStep("inspect") /\ choice = MarkdownPage /\ IsRunEvent(editor.event)

HasPreview(st) == "mini_md_last_run" \in DOMAIN st

\* C13: mini_md_last_run starts as the initial text of the markdown editor,
\* and afterwards changes only in a script run whose event is "run" or
\* "submit", where it becomes the content of the editor; every other step
\* leaves it as it is.
C13_PreviewChangesOnConfirm ==
    [][/\ (~HasPreview(state) /\ HasPreview(state')) =>
             /\ "mini_md_code" \notin DOMAIN state
             /\ state'["mini_md_last_run"] = get_value(state'["mini_md_code"])
             /\ \E readable \in BOOLEAN :
                   state'["mini_md_last_run"] =
                       Autoload(files, MARKDOWN_AUTOSAVE_PATH, DefaultMd, readable)
       /\ HasPreview(state) =>
             /\ HasPreview(state')
             /\ IF AboutToConfirm
                THEN state'["mini_md_last_run"] = get_value(state["mini_md_code"])
                ELSE state'["mini_md_last_run"] = state["mini_md_last_run"]]_vars

\* a submit made the preview the text typed in this script run
C13_Witness ==
    /\ RunFinished
    /\ choice = MarkdownPage
    /\ editor.event = "submit"
    /\ synced = "print(x)"
    /\ state["mini_md_last_run"] = "print(x)"
    /\ MARKDOWN_AUTOSAVE_PATH \notin DOMAIN files

\* the files after a write of text to path that went as told by result
AfterSave(fs, path, text, result) ==
    CASE result = "written" -> [p \in DOMAIN fs \cup {path} |-> IF p = path THEN text ELSE fs[p]]
      [] result = "write_failed" -> [p \in DOMAIN fs \cup {path} |-> IF p = path THEN "" ELSE fs[p]]
      [] OTHER -> fs

\* C18: _run_code ends by writing the source it executed to the code autosave
\* file, whether the source ran to its end or raised, and a run/submit of the
\* markdown page writes the new preview text; no other step touches the files.
\* A write that fails is not raised: the script run goes on to its next
\* statement and the session is what a successful write would have left.
C18_AutosaveFollowsAndNeverDisturbs ==
    [][/\ AboutToRun =>
             LET src == get_value(state["mini_code_code"]) IN
             /\ saved' \in SaveOutcomes
             /\ files' = AfterSave(files, CODE_AUTOSAVE_PATH, src, saved')
             /\ state' = [state EXCEPT
                    !["mini_code_ns"] = Exec(src, state["mini_code_ns"]).ns,
                    !["mini_code_stdout"] = Exec(src, state["mini_code_ns"]).out,
                    !["mini_code_stderr"] = Exec(src, state["mini_code_ns"]).err,
                    !["mini_code_exception"] = Exec(src, state["mini_code_ns"]).exc]
             /\ pc' = pc + 1
       /\ AboutToConfirm =>
             LET text == get_value(state["mini_md_code"]) IN
             /\ saved' \in SaveOutcomes
             /\ files' = AfterSave(files, MARKDOWN_AUTOSAVE_PATH, text, saved')
             /\ state' = [state EXCEPT !["mini_md_last_run"] = text]
             /\ pc' = pc + 1
       /\ ~(AboutToRun \/ AboutToConfirm) => (files' = files /\ saved' \in {saved, NoAct})]_vars

\* a source that raised was written to the file, which held another text
C18_Witness ==
    /\ RunFinished
    /\ choice = CodePage
    /\ acted = "print(x)"
    /\ state["mini_code_exception"] # ""
    /\ saved = "written"
    /\ files = [p \in {CODE_AUTOSAVE_PATH} |-> "print(x)"]

----------------------------------------------------------------------------
(* Properties of the code page, under SpecCell *)

HasNs(st) == "mini_code_ns" \in DOMAIN st

\* every binding of namespace a is a binding of namespace b
Within(a, b) == \A n \in DOMAIN a : n \in DOMAIN b /\ b[n] = a[n]

\* C11: the namespace is created empty only when the key mini_code_ns is
\* missing and is never replaced or cleared afterwards: every _run_code
\* executes in the namespace the session holds and leaves its bindings there,
\* also those made before the run raised, so that later runs see them.
C11_NamespacePersists ==
    [][/\ (~HasNs(state) /\ HasNs(state')) => state'["mini_code_ns"] = << >>
       /\ HasNs(state) =>
             /\ HasNs(state')
             /\ Within(state["mini_code_ns"], state'["mini_code_ns"])
             /\ IF AboutToRun
                THEN state'["mini_code_ns"] =
                        Exec(get_value(state["mini_code_code"]), state["mini_code_ns"]).ns
                ELSE state'["mini_code_ns"] = state["mini_code_ns"]]_vars

\* a run reads y, which only a run that raised has bound, next to x
C11_Witness ==
    /\ RunFinished
    /\ acted = "print(y)"
    /\ state["mini_code_stdout"] = "2\n"
    /\ state["mini_code_exception"] = ""
    /\ DOMAIN state["mini_code_ns"] = {"x", "y"}

\* the script run of the code page is over and it called _run_code()
RanCode == RunFinished /\ choice = CodePage /\ acted # NoAct

\* C17: after _run_code the stored outputs are those of that run alone: stdout
\* and stderr hold what the run wrote, not what earlier runs left, and
\* mini_code_exception is "" when the source ran to its end and a traceback
\* when it raised; a run that succeeds clears the traceback of an earlier one.
C17_OutputsDescribeLastRun ==
    RanCode =>
        LET r == Exec(acted, snapshot["mini_code_ns"]) IN
        /\ state["mini_code_stdout"] = r.out
        /\ state["mini_code_stderr"] = r.err
        /\ state["mini_code_exception"] = r.exc
        /\ acted \in {"x = 1", WriteStderr} => state["mini_code_exception"] = ""
        /\ acted = "x = 1" =>
              state["mini_code_stdout"] = "" /\ state["mini_code_stderr"] = ""
        /\ acted = WriteStderr =>
              state["mini_code_stdout"] = "" /\ state["mini_code_stderr"] = "warn\n"
        /\ acted = BindThenRaise =>
              /\ state["mini_code_exception"] = "ValueError: stop"
              /\ state["mini_code_stdout"] = "" /\ state["mini_code_stderr"] = ""
        /\ acted = "print(x)" =>
              \/ state["mini_code_stdout"] = "1\n" /\ state["mini_code_exception"] = ""
              \/ state["mini_code_stdout"] = "" /\ state["mini_code_exception"] # ""

\* a run that succeeds right after one that raised and left a traceback
C17_Witness ==
    /\ RanCode
    /\ snapshot["mini_code_exception"] = "ValueError: stop"
    /\ acted = WriteStderr
    /\ state["mini_code_exception"] = ""
    /\ state["mini_code_stderr"] = "warn\n"

----------------------------------------------------------------------------
(* Properties of redraws and mode switches, under SpecSwitch *)

CodePageKeys == {"mini_code_code"} \cup OutputKeys
MarkdownPageKeys == {"mini_md_code", "mini_md_last_run"}
ContentKeys == {"mini_code_code", "mini_md_code"}

\* the payload the editor parsed carries no text other than the content
NoNewText ==
    \/ IsNone(output)
    \/ "text" \notin DOMAIN output
    \/ output["text"] = get_value(state[editor.code])

\* C12: the session entries of a page are initialised only when their key is
\* missing; a script run of one page leaves the other page's content and
\* outputs as they are; and a content changes only when its own editor parsed
\* a payload with new text, so that redraws and mode switches without new text
\* leave each editor's content as it was.
C12_ContentSurvivesRedraws ==
    [][/\ \A k \in (CodePageKeys \cup MarkdownPageKeys) \cap DOMAIN state :
             /\ k \in DOMAIN state'
             /\ pc = 0 => state'[k] = state[k]
             /\ (k \in CodePageKeys /\ choice' = MarkdownPage) => state'[k] = state[k]
             /\ (k \in MarkdownPageKeys /\ choice' = CodePage) => state'[k] = state[k]
       /\ \A k \in ContentKeys \cap DOMAIN state :
             state'[k] # state[k] =>
                 /\ AtStep("from_ui") /\ editor.code = k
                 /\ ~NoNewText
                 /\ get_value(state'[k]) = output["text"]
       /\ (AtStep("from_ui") /\ NoNewText) => state' = state]_vars

\* the code page is drawn again without new text after both editors were typed in
C12_Witness ==
    /\ RunFinished
    /\ choice = CodePage
    /\ "text" \notin DOMAIN output
    /\ ContentKeys \subseteq DOMAIN state
    /\ get_value(state["mini_code_code"]) = "print(x)"
    /\ get_value(state["mini_md_code"]) = "print(x)"
    /\ state["mini_md_last_run"] = "print(x)"

====
